---------------------------- MODULE Spec2Model ----------------------------
(***************************************************************************)
(* Budget allocation and layered summarization of shinychoes/Vision:       *)
(* UI_UX/budget.py (compute_budget, naive_summarize) and                   *)
(* vision_ui/summarize.py (Persona, layered_summarize,                     *)
(* multi_profile_summarize) with the profile table of                      *)
(* vision_ui/profiles.py.                                                  *)
(*                                                                         *)
(* A Python str is a sequence of one-character strings, so that length,    *)
(* split, strip, replace and join are computed and not assumed.            *)
(***************************************************************************)
EXTENDS Integers, Sequences, FiniteSets, TLC

Max(a, b) == IF a >= b THEN a ELSE b
Min(a, b) == IF a <= b THEN a ELSE b

\* An Optional value is a sequence of at most one value
None == <<>>
Some(v) == <<v>>

(***************************************************************************)
(* str helpers                                                             *)
(***************************************************************************)

\* str.isspace for the characters that occur: blank and newline
IsSpace(c) == c \in {" ", "\n"}

RECURSIVE LStrip(_)
LStrip(s) == IF s # <<>> /\ IsSpace(Head(s)) THEN LStrip(Tail(s)) ELSE s

RECURSIVE RStrip(_)
RStrip(s) ==
    IF s # <<>> /\ IsSpace(s[Len(s)]) THEN RStrip(SubSeq(s, 1, Len(s) - 1)) ELSE s

\* str.strip()
Strip(s) == RStrip(LStrip(s))

\* s.startswith(p)
StartsWith(s, p) == Len(s) >= Len(p) /\ SubSeq(s, 1, Len(p)) = p

\* s.endswith(p)
EndsWith(s, p) == Len(s) >= Len(p) /\ SubSeq(s, Len(s) - Len(p) + 1, Len(s)) = p

\* p in s
Contains(s, p) ==
    \E k \in 1..(Len(s) - Len(p) + 1) : SubSeq(s, k, k + Len(p) - 1) = p

\* str.replace(old, new) for a non-empty old: leftmost, non-overlapping
RECURSIVE Replace(_, _, _)
Replace(s, old, new) ==
    IF Len(s) < Len(old) THEN s
    ELSE IF SubSeq(s, 1, Len(old)) = old
         THEN new \o Replace(SubSeq(s, Len(old) + 1, Len(s)), old, new)
         ELSE <<Head(s)>> \o Replace(Tail(s), old, new)

\* str.split(sep) for a one-character sep: k separators give k+1 parts
RECURSIVE SplitAcc(_, _, _)
SplitAcc(s, sep, cur) ==
    IF s = <<>> THEN <<cur>>
    ELSE IF Head(s) = sep THEN <<cur>> \o SplitAcc(Tail(s), sep, <<>>)
         ELSE SplitAcc(Tail(s), sep, Append(cur, Head(s)))

Split(s, sep) == SplitAcc(s, sep, <<>>)

\* str.split(): the maximal runs of non-whitespace
RECURSIVE WordsAcc(_, _)
WordsAcc(s, cur) ==
    IF s = <<>> THEN (IF cur = <<>> THEN <<>> ELSE <<cur>>)
    ELSE IF IsSpace(Head(s))
         THEN (IF cur = <<>> THEN <<>> ELSE <<cur>>) \o WordsAcc(Tail(s), <<>>)
         ELSE WordsAcc(Tail(s), Append(cur, Head(s)))

Words(s) == WordsAcc(s, <<>>)

\* sep.join(parts)
RECURSIVE Join(_, _)
Join(sep, parts) ==
    IF parts = <<>> THEN <<>>
    ELSE IF Len(parts) = 1 THEN parts[1]
         ELSE parts[1] \o sep \o Join(sep, Tail(parts))

(***************************************************************************)
(* UI_UX/budget.py: naive_summarize                                        *)
(***************************************************************************)

\* the lower bound of max_chars
MinChars == 10

Ellipsis == <<".", ".", ".">>

\* textwrap.shorten(text, width, placeholder='...') for width >= 3 and a
\* text without hyphens: whitespace collapsed; when that does not fit, the
\* longest run of leading words that leaves room for the placeholder
shorten(text, width) ==
    LET words == Words(text)
        full  == Join(<<" ">>, words)
        fits(n) == Len(Join(<<" ">>, SubSeq(words, 1, n))) + Len(Ellipsis) <= width
        ks    == {n \in 1..Len(words) : fits(n)}
        k     == IF ks = {} THEN 0 ELSE CHOOSE n \in ks : \A m \in ks : m <= n
    IN  IF Len(full) <= width THEN full
        ELSE IF k = 0 THEN Ellipsis
             ELSE Join(<<" ">>, SubSeq(words, 1, k)) \o Ellipsis

\* [s.strip() for s in text.split('.') if s.strip()]
SentencesOf(text) ==
    LET parts == Split(text, ".")
        stripped == [k \in 1..Len(parts) |-> Strip(parts[k])]
    IN  SelectSeq(stripped, LAMBDA s : s # <<>>)

\* '. '.join(summary) + '.'
JoinSentences(summary) == Join(<<".", " ">>, summary) \o <<".">>

\* a loop that goes on after a sentence that does not fit
RECURSIVE Accumulate_SkipOverflow(_, _, _)
Accumulate_SkipOverflow(summary, sentences, max_chars) ==
    IF sentences = <<>> THEN summary
    ELSE IF Len(Join(<<".", " ">>, Append(summary, Head(sentences))) \o <<".">>) <= max_chars
         THEN Accumulate_SkipOverflow(Append(summary, Head(sentences)), Tail(sentences), max_chars)
         ELSE Accumulate_SkipOverflow(summary, Tail(sentences), max_chars)

\* the for loop of naive_summarize: append while the candidate fits, break
\* at the first sentence that does not
RECURSIVE Accumulate(_, _, _)
Accumulate(summary, sentences, max_chars) ==
    IF sentences = <<>> THEN summary
    ELSE IF Len(JoinSentences(Append(summary, Head(sentences)))) <= max_chars
         THEN Accumulate(Append(summary, Head(sentences)), Tail(sentences), max_chars)
         ELSE summary

\* the sentences naive_summarize keeps
KeptSentences(text, char_limit) ==
    Accumulate(<<>>, SentencesOf(text), Max(MinChars, char_limit))

\* naive_summarize without the break: every sentence is kept
naive_summarize_Unbounded(text, char_limit) ==
    IF text = <<>> THEN <<>>
    ELSE IF SentencesOf(text) = <<>> THEN shorten(text, Max(MinChars, char_limit))
         ELSE JoinSentences(SentencesOf(text))

\* naive_summarize whose fallback hands the text back uncut
naive_summarize_FallbackWhole(text, char_limit) ==
    IF text = <<>> THEN <<>>
    ELSE LET summary == KeptSentences(text, char_limit)
         IN  IF summary = <<>> THEN text
             ELSE JoinSentences(summary)

naive_summarize(text, char_limit) ==
    IF text = <<>> THEN <<>>
    ELSE LET max_chars == Max(MinChars, char_limit)
             summary   == KeptSentences(text, char_limit)
         IN  IF summary = <<>> THEN shorten(text, max_chars)
             ELSE JoinSentences(summary)

(***************************************************************************)
(* UI_UX/budget.py: compute_budget                                         *)
(*                                                                         *)
(* Pixel sizes are integers. A buffer is held in hundredths and the font   *)
(* metrics in hundredths of a pixel. The double font_size_px * 0.55 is     *)
(* larger than the decimal product for the font sizes of AvgWidthAbove, so *)
(* that a width that is an exact multiple of the decimal product floors    *)
(* one column lower; line_height_px (a multiple of 0.25) is exact. The     *)
(* buffers of ExactBuffers are those for which int(char_budget * buffer)   *)
(* equals the decimal floor for every char_budget below 20000.             *)
(***************************************************************************)

\* font sizes f <= 40 with float(f * 0.55) > f * 55 / 100
AvgWidthAbove ==
    {8, 9, 11, 12, 13, 14, 16, 17, 18, 19, 21, 22, 23, 24, 25, 26, 27, 28, 29,
     31, 32, 33, 34, 36, 37, 38, 39}

ExactBuffers == {10, 25, 30, 40, 50, 60, 65, 75, 80, 85, 90, 95, 100}

\* max(4.0, font_size_px * 0.55), in hundredths of a pixel
avg_char_width_px(font_size_px) == Max(400, font_size_px * 55)

\* max(12.0, font_size_px * 1.25), in hundredths of a pixel
line_height_px(font_size_px) == Max(1200, font_size_px * 125)

\* int(width_px // avg_char_width_px)
ColumnsFloor(width_px, font_size_px) ==
    LET a == avg_char_width_px(font_size_px)
        q == (width_px * 100) \div a
    IN  IF a > 400 /\ font_size_px \in AvgWidthAbove /\ (width_px * 100) % a = 0
        THEN q - 1 ELSE q

BudgetRecord(width_px, height_px, font_size_px, columns, lines, effective_columns, buffer) ==
    [width_px |-> width_px,
     height_px |-> height_px,
     columns |-> columns,
     lines |-> lines,
     effective_columns |-> effective_columns,
     char_budget |-> effective_columns * lines,
     target_chars |-> (effective_columns * lines * buffer) \div 100,
     font_size_px |-> font_size_px,
     avg_char_width_px |-> avg_char_width_px(font_size_px),
     line_height_px |-> line_height_px(font_size_px)]

\* compute_budget without the max(1, ...) of columns and lines
compute_budget_NoFloor(width_px, height_px, font_size_px, editor_ruler_columns, buffer) ==
    LET columns == ColumnsFloor(width_px, font_size_px)
        lines   == (height_px * 100) \div line_height_px(font_size_px)
    IN  BudgetRecord(width_px, height_px, font_size_px, columns, lines,
                     IF editor_ruler_columns = None THEN columns
                     ELSE Min(columns, editor_ruler_columns[1]), buffer)

\* compute_budget that leaves the ruler out of effective_columns
compute_budget_NoRuler(width_px, height_px, font_size_px, editor_ruler_columns, buffer) ==
    LET columns == Max(1, ColumnsFloor(width_px, font_size_px))
        lines   == Max(1, (height_px * 100) \div line_height_px(font_size_px))
    IN  BudgetRecord(width_px, height_px, font_size_px, columns, lines, columns,
                     buffer)

compute_budget(width_px, height_px, font_size_px, editor_ruler_columns, buffer) ==
    LET columns == Max(1, ColumnsFloor(width_px, font_size_px))
        lines   == Max(1, (height_px * 100) \div line_height_px(font_size_px))
        effective_columns ==
            IF editor_ruler_columns = None THEN columns
            ELSE Min(columns, editor_ruler_columns[1])
    IN  BudgetRecord(width_px, height_px, font_size_px, columns, lines,
                     effective_columns, buffer)

(***************************************************************************)
(* vision_ui/summarize.py: the layer table                                 *)
(***************************************************************************)

\* budget_multiplier is held in tenths: int(char_budget * m) equals
\* (char_budget * tenths) \div 10 for m in {0.1, 0.8, 1.0} and every
\* char_budget below 100000
DEFAULT_LAYERS ==
    [headline   |-> [name |-> "headline", budget_multiplier |-> 1,
                     max_sentences |-> Some(2), include_hash |-> FALSE],
     one_screen |-> [name |-> "one_screen", budget_multiplier |-> 8,
                     max_sentences |-> None, include_hash |-> FALSE],
     deep       |-> [name |-> "deep", budget_multiplier |-> 10,
                     max_sentences |-> None, include_hash |-> TRUE]]

LayerNames == DOMAIN DEFAULT_LAYERS

\* layer_budget = int(char_budget * layer_config.budget_multiplier)
layer_budget(char_budget, layer_name) ==
    (char_budget * DEFAULT_LAYERS[layer_name].budget_multiplier) \div 10

\* the characters reserved for "[hash:xxxxxxxx] "
HashReserve == 15

\* hash_overhead = 15 if layer_config.include_hash else 0
hash_overhead(layer_name) ==
    IF DEFAULT_LAYERS[layer_name].include_hash THEN HashReserve ELSE 0

(***************************************************************************)
(* The content hash. hashlib.md5(text.encode()).hexdigest()[:8] is eight   *)
(* hexadecimal digits determined by the text; the digest here is a         *)
(* positional checksum of the text written in eight hexadecimal digits.    *)
(***************************************************************************)

HexDigits ==
    <<"0", "1", "2", "3", "4", "5", "6", "7", "8", "9", "a", "b", "c", "d", "e", "f">>

CharCode(c) ==
    CASE c = " "  -> 1
      [] c = "."  -> 2
      [] c = "\n" -> 3
      [] c = "a"  -> 4
      [] c = "f"  -> 5
      [] c = "i"  -> 6
      [] c = "x"  -> 7
      [] OTHER    -> 8

RECURSIVE Checksum(_, _)
Checksum(s, acc) ==
    IF s = <<>> THEN acc
    ELSE Checksum(Tail(s), (acc * 31 + CharCode(Head(s))) % 65536)

\* hexdigest()[:8]
content_hash(s) ==
    LET h == Checksum(s, 7)
        d(k) == HexDigits[((h \div k) % 16) + 1]
    IN  <<d(4096), d(256), d(16), d(1), d(4096), d(16), d(256), d(1)>>

\* f"[hash:{content_hash}] "
HashTag(s) == <<"[", "h", "a", "s", "h", ":">> \o content_hash(s) \o <<"]", " ">>

(***************************************************************************)
(* vision_ui/summarize.py: Persona                                         *)
(*                                                                         *)
(* A persona is a record; vocabulary_mappings is the dict as the sequence  *)
(* of its (old, new) items in insertion order, and an absent mapping,      *)
(* example list or context prefix is the empty sequence (all are tested    *)
(* for truth only).                                                        *)
(***************************************************************************)

ExamplePrefix == <<"E", "x", "a", "m", "p", "l", "e", ":", " ">>

NL == <<"\n">>
NLNL == <<"\n", "\n">>

\* "\n".join(f"Example: {example}" for example in self.example_sentences)
examples_text(p) ==
    Join(NL, [k \in 1..Len(p.example_sentences) |->
                  ExamplePrefix \o p.example_sentences[k]])

\* self.context_prefix or ""
context_text(p) == p.context_prefix

\* for old_word, new_word in vocabulary_mappings.items(): replace
RECURSIVE ApplyVocabulary(_, _)
ApplyVocabulary(mappings, s) ==
    IF mappings = <<>> THEN s
    ELSE ApplyVocabulary(Tail(mappings), Replace(s, Head(mappings)[1], Head(mappings)[2]))

\* Persona.apply(text, include_examples, include_context)
apply(p, s, include_examples, include_context) ==
    LET t1 == ApplyVocabulary(p.vocabulary_mappings, s)
        t2 == IF include_context /\ p.context_prefix # <<>>
              THEN p.context_prefix \o NLNL \o t1 ELSE t1
        t3 == IF include_examples /\ p.example_sentences # <<>>
                 /\ p.examples_location = "prepend"
              THEN examples_text(p) \o NLNL \o t2 ELSE t2
    IN  IF include_examples /\ p.example_sentences # <<>>
           /\ p.examples_location = "append"
        THEN t3 \o NLNL \o examples_text(p) ELSE t3

RECURSIVE SumLen(_)
SumLen(ss) == IF ss = <<>> THEN 0 ELSE Len(ExamplePrefix \o Head(ss)) + 1 + SumLen(Tail(ss))

_calculate_persona_overhead(p) ==
    (IF p.context_prefix # <<>> THEN Len(p.context_prefix) + 2 ELSE 0)
    + SumLen(p.example_sentences)
    + (IF p.context_prefix # <<>> /\ p.example_sentences # <<>> THEN 2 ELSE 0)

(***************************************************************************)
(* vision_ui/summarize.py: BUILTIN_PERSONAS. None of them sets             *)
(* examples_location, so each has the dataclass default "append".          *)
(***************************************************************************)

\* BUILTIN_PERSONAS["developer"]
developer ==
    [name |-> "developer",
     vocabulary_mappings |->
         <<
           \* "user": "end-user"
           << <<"u", "s", "e", "r">>,
             <<"e", "n", "d", "-", "u", "s", "e", "r">> >>,
           \* "problem": "issue"
           << <<"p", "r", "o", "b", "l", "e", "m">>,
             <<"i", "s", "s", "u", "e">> >>,
           \* "fix": "resolve"
           << <<"f", "i", "x">>,
             <<"r", "e", "s", "o", "l", "v", "e">> >> >>,
     example_sentences |->
         <<
           \* "Focus on technical implementation details."
           <<"F", "o", "c", "u", "s", " ", "o", "n", " ", "t", "e", "c", "h",
             "n", "i", "c", "a", "l", " ", "i", "m", "p", "l", "e", "m", "e",
             "n", "t", "a", "t", "i", "o", "n", " ", "d", "e", "t", "a", "i",
             "l", "s", ".">>,
           \* "Consider API design patterns."
           <<"C", "o", "n", "s", "i", "d", "e", "r", " ", "A", "P", "I", " ",
             "d", "e", "s", "i", "g", "n", " ", "p", "a", "t", "t", "e", "r",
             "n", "s", ".">> >>,
     \* "As a software developer reviewing this content:"
     context_prefix |->
         <<"A", "s", " ", "a", " ", "s", "o", "f", "t", "w", "a", "r", "e",
           " ", "d", "e", "v", "e", "l", "o", "p", "e", "r", " ", "r", "e",
           "v", "i", "e", "w", "i", "n", "g", " ", "t", "h", "i", "s", " ",
           "c", "o", "n", "t", "e", "n", "t", ":">>,
     examples_location |-> "append"]

\* BUILTIN_PERSONAS["designer"]
designer ==
    [name |-> "designer",
     vocabulary_mappings |->
         <<
           \* "functionality": "user experience"
           << <<"f", "u", "n", "c", "t", "i", "o", "n", "a", "l", "i", "t",
               "y">>,
             <<"u", "s", "e", "r", " ", "e", "x", "p", "e", "r", "i", "e",
               "n", "c", "e">> >>,
           \* "code": "interface"
           << <<"c", "o", "d", "e">>,
             <<"i", "n", "t", "e", "r", "f", "a", "c", "e">> >> >>,
     example_sentences |->
         <<
           \* "Consider visual hierarchy and layout."
           <<"C", "o", "n", "s", "i", "d", "e", "r", " ", "v", "i", "s", "u",
             "a", "l", " ", "h", "i", "e", "r", "a", "r", "c", "h", "y", " ",
             "a", "n", "d", " ", "l", "a", "y", "o", "u", "t", ".">>,
           \* "Focus on user interaction patterns."
           <<"F", "o", "c", "u", "s", " ", "o", "n", " ", "u", "s", "e", "r",
             " ", "i", "n", "t", "e", "r", "a", "c", "t", "i", "o", "n", " ",
             "p", "a", "t", "t", "e", "r", "n", "s", ".">> >>,
     \* "From a UX/UI design perspective:"
     context_prefix |->
         <<"F", "r", "o", "m", " ", "a", " ", "U", "X", "/", "U", "I", " ",
           "d", "e", "s", "i", "g", "n", " ", "p", "e", "r", "s", "p", "e",
           "c", "t", "i", "v", "e", ":">>,
     examples_location |-> "append"]

\* BUILTIN_PERSONAS["manager"]
manager ==
    [name |-> "manager",
     vocabulary_mappings |->
         <<
           \* "technical": "strategic"
           << <<"t", "e", "c", "h", "n", "i", "c", "a", "l">>,
             <<"s", "t", "r", "a", "t", "e", "g", "i", "c">> >>,
           \* "implementation": "execution"
           << <<"i", "m", "p", "l", "e", "m", "e", "n", "t", "a", "t", "i",
               "o", "n">>,
             <<"e", "x", "e", "c", "u", "t", "i", "o", "n">> >> >>,
     example_sentences |->
         <<
           \* "Consider business impact and timeline."
           <<"C", "o", "n", "s", "i", "d", "e", "r", " ", "b", "u", "s", "i",
             "n", "e", "s", "s", " ", "i", "m", "p", "a", "c", "t", " ", "a",
             "n", "d", " ", "t", "i", "m", "e", "l", "i", "n", "e", ".">>,
           \* "Focus on resource allocation."
           <<"F", "o", "c", "u", "s", " ", "o", "n", " ", "r", "e", "s", "o",
             "u", "r", "c", "e", " ", "a", "l", "l", "o", "c", "a", "t", "i",
             "o", "n", ".">> >>,
     \* "From a project management viewpoint:"
     context_prefix |->
         <<"F", "r", "o", "m", " ", "a", " ", "p", "r", "o", "j", "e", "c",
           "t", " ", "m", "a", "n", "a", "g", "e", "m", "e", "n", "t", " ",
           "v", "i", "e", "w", "p", "o", "i", "n", "t", ":">>,
     examples_location |-> "append"]

\* the dict in insertion order
BUILTIN_PERSONAS == <<developer, designer, manager>>

\* list(BUILTIN_PERSONAS.keys())
BuiltinPersonaNames == [n \in 1..Len(BUILTIN_PERSONAS) |-> BUILTIN_PERSONAS[n].name]

\* persona in BUILTIN_PERSONAS
IsBuiltinPersona(name) == \E n \in 1..Len(BUILTIN_PERSONAS) : BUILTIN_PERSONAS[n].name = name

\* BUILTIN_PERSONAS[persona]
BuiltinPersona(name) ==
    BUILTIN_PERSONAS[CHOOSE n \in 1..Len(BUILTIN_PERSONAS) : BUILTIN_PERSONAS[n].name = name]

(***************************************************************************)
(* vision_ui/profiles.py: Profile and DEFAULT_PROFILES. buffer is held in  *)
(* hundredths.                                                             *)
(***************************************************************************)

Profile(name, width_px, height_px, font_size_px, editor_ruler_columns, buffer) ==
    [name |-> name, width_px |-> width_px, height_px |-> height_px,
     font_size_px |-> font_size_px, editor_ruler_columns |-> editor_ruler_columns,
     buffer |-> buffer, image_regions |-> None]

DEFAULT_PROFILES ==
    [laptop |-> Profile("laptop", 1920, 1080, 14, Some(80), 90),
     phone  |-> Profile("phone", 375, 667, 12, Some(40), 85),
     slides |-> Profile("slides", 1024, 768, 18, Some(60), 80),
     tweet  |-> Profile("tweet", 280, 400, 14, Some(40), 90)]

(***************************************************************************)
(* vision_ui/summarize.py: the body of the loop of layered_summarize       *)
(***************************************************************************)

\* the characters kept for content when a persona is applied in full
ContentFloor == 20

\* the chain without the headline case
BranchOf_NoHeadline(layer_name, char_budget, persona) ==
    IF persona # None /\ persona[1].examples_location = "append" THEN "append"
    ELSE IF persona # None
            /\ layer_budget(char_budget, layer_name)
                 > _calculate_persona_overhead(persona[1]) + hash_overhead(layer_name)
                   + ContentFloor
         THEN "full"
         ELSE "plain"

\* a chain whose threshold includes equality
BranchOf_AtThreshold(layer_name, char_budget, persona) ==
    IF persona # None /\ layer_name = "headline" THEN "headline"
    ELSE IF persona # None /\ persona[1].examples_location = "append" THEN "append"
    ELSE IF persona # None
            /\ layer_budget(char_budget, layer_name)
                 >= _calculate_persona_overhead(persona[1]) + hash_overhead(layer_name)
                    + ContentFloor
         THEN "full"
         ELSE "plain"

\* the if/elif chain of lines 174-207
BranchOf(layer_name, char_budget, persona) ==
    IF persona # None /\ layer_name = "headline" THEN "headline"
    ELSE IF persona # None /\ persona[1].examples_location = "append" THEN "append"
    ELSE IF persona # None
            /\ layer_budget(char_budget, layer_name)
                 > _calculate_persona_overhead(persona[1]) + hash_overhead(layer_name)
                   + ContentFloor
         THEN "full"
         ELSE "plain"

\* the text handed to the summarizer
SummarizerText(layer_name, s, char_budget, persona) ==
    LET branch == BranchOf(layer_name, char_budget, persona)
    IN  IF branch = "headline" /\ persona[1].vocabulary_mappings # <<>>
        THEN ApplyVocabulary(persona[1].vocabulary_mappings, s)
        ELSE IF branch = "full" THEN apply(persona[1], s, TRUE, TRUE)
        ELSE s

\* the limit without hash_overhead subtracted
SummarizerLimit_KeepsHash(layer_name, char_budget, persona) ==
    IF BranchOf(layer_name, char_budget, persona) = "full"
    THEN layer_budget(char_budget, layer_name) - _calculate_persona_overhead(persona[1])
    ELSE layer_budget(char_budget, layer_name)

\* the char_limit handed to the summarizer
SummarizerLimit(layer_name, char_budget, persona) ==
    LET branch == BranchOf(layer_name, char_budget, persona)
    IN  IF branch = "full"
        THEN layer_budget(char_budget, layer_name)
               - _calculate_persona_overhead(persona[1]) - hash_overhead(layer_name)
        ELSE layer_budget(char_budget, layer_name) - hash_overhead(layer_name)

\* postfix_items with the examples put before the context
postfix_items_ExamplesFirst(p) ==
    (IF examples_text(p) # <<>> THEN <<examples_text(p)>> ELSE <<>>)
    \o (IF context_text(p) # <<>> THEN <<context_text(p)>> ELSE <<>>)

\* postfix_items of the append branch
postfix_items(p) ==
    (IF context_text(p) # <<>> THEN <<context_text(p)>> ELSE <<>>)
    \o (IF examples_text(p) # <<>> THEN <<examples_text(p)>> ELSE <<>>)

\* lines 189-198: the persona material attached after packing
AttachPostfix(branch, persona, summary) ==
    IF branch = "append" /\ postfix_items(persona[1]) # <<>>
    THEN Strip(summary) \o NLNL \o Join(NLNL, postfix_items(persona[1]))
    ELSE summary

\* the tag computed from the summary instead of the input text
AttachHash_OfSummary(layer_name, s, summary) ==
    IF DEFAULT_LAYERS[layer_name].include_hash THEN HashTag(summary) \o summary ELSE summary

\* lines 209-213: the hash of the input text put before the summary
AttachHash(layer_name, s, summary) ==
    IF DEFAULT_LAYERS[layer_name].include_hash THEN HashTag(s) \o summary ELSE summary

\* the summarizer of the call: naive_summarize when none is passed
summarizer(s, char_limit) == naive_summarize(s, char_limit)

\* results[layer_name] of one iteration, from what the summarizer returned
LayerResult(layer_name, s, branch, persona, out) ==
    AttachHash(layer_name, s, AttachPostfix(branch, persona, out))

\* d[k] = v on a dict held as the sequence of its items in insertion order
DictSet(d, k, v) ==
    IF \E n \in 1..Len(d) : d[n].k = k
    THEN [n \in 1..Len(d) |-> IF d[n].k = k THEN [k |-> k, v |-> v] ELSE d[n]]
    ELSE Append(d, [k |-> k, v |-> v])

DictKeys(d) == [n \in 1..Len(d) |-> d[n].k]

HasKey(d, k) == \E n \in 1..Len(d) : d[n].k = k

DictGet(d, k) == d[CHOOSE n \in 1..Len(d) : d[n].k = k].v

(***************************************************************************)
(* The inputs of the calls                                                 *)
(***************************************************************************)

\* the pieces input texts are made of
Units == {<<"f", "i", "x">>, <<"a", "a", "a", "a", "a", "a">>, <<".">>, <<" ">>}

\* an input text is at most MaxUnits pieces
MaxUnits == 3

RECURSIVE Concat(_)
Concat(us) == IF us = <<>> THEN <<>> ELSE Head(us) \o Concat(Tail(us))

Texts == {Concat(us) : us \in UNION {[1..n -> Units] : n \in 0..MaxUnits}}

\* texts of three sentences: one for the budgets whose headline share holds
\* it, one whose second sentence overflows where the third would fit
SentenceTexts ==
    {Concat(<<(<<"f", "i", "x">>), (<<".">>), (<<"f", "i", "x">>), (<<".">>), (<<"f", "i", "x">>)>>),
     Concat(<<(<<"f", "i", "x">>), (<<".">>), (<<"a", "a", "a", "a", "a", "a">>), (<<".">>), (<<"f", "i", "x">>)>>)}

\* char_budget of a direct call ranges over 0..MaxTotal, and over a few
\* budgets whose headline share exceeds MinChars
MaxTotal == 54

Budgets == (0..MaxTotal) \cup {100, 120, 150, 180}

\* a request names at most MaxLayers layers
MaxLayers == 3

RequestNames == LayerNames \cup {"invalid_layer"}

LayerLists == UNION {[1..n -> RequestNames] : n \in 0..MaxLayers}

\* the texts and budgets the requests of several layers are made with
RequestTexts == {Concat(us) : us \in [1..1 -> Units]}

\* 52 is the budget at which deep equals the threshold of the caller-made
\* personas with a preamble and an example while one_screen is above it
RequestBudgets == {0, 52, MaxTotal}

\* the texts multi_profile_summarize is called with: the single pieces and a
\* text of two sentences that the small budgets cut to one
MultiTexts == RequestTexts \cup {Concat(<<(<<"a", "a", "a", "a", "a", "a">>), (<<".">>), (<<"f", "i", "x">>)>>)}

\* multi_profile_summarize is called with at most MaxProfiles profiles, the
\* built-in ones and caller-made small ones (one of them under a built-in
\* name), and at most MaxMultiLayers layer names
MaxProfiles == 2

MaxMultiLayers == 2

InputProfiles ==
    {DEFAULT_PROFILES.laptop,
     DEFAULT_PROFILES.tweet,
     Profile("tiny", 40, 24, 14, Some(80), 90),
     Profile("laptop", 100, 40, 14, None, 90)}

ProfileLists == UNION {[1..n -> InputProfiles] : n \in 0..MaxProfiles}

MultiLayerLists == UNION {[1..n -> RequestNames] : n \in 0..MaxMultiLayers}

\* the persona argument: absent, empty, built-in or unknown
PersonaNames ==
    {None, Some(""), Some("developer"), Some("designer"), Some("manager"),
     Some("nonexistent")}

\* compute_budget is called with sizes up to MaxWidth x MaxHeight pixels and
\* ruler caps up to MaxRuler
MaxWidth == 24

MaxHeight == 40

MaxRuler == 3

FontSizes == {1, 8, 14, 18}

Buffers == {10, 50, 90, 100}

FixMapping == << <<(<<"f", "i", "x">>), (<<"r", "e", "s", "o", "l", "v", "e">>)>> >>

\* caller-made personas, in the shapes the tests construct
Personas ==
    {[name |-> "vocab", vocabulary_mappings |-> FixMapping,
      example_sentences |-> <<>>, context_prefix |-> <<>>,
      examples_location |-> "append"],
     [name |-> "review", vocabulary_mappings |-> FixMapping,
      example_sentences |-> << <<"e">> >>, context_prefix |-> <<"c", ":">>,
      examples_location |-> "append"],
     [name |-> "notes", vocabulary_mappings |-> <<>>,
      example_sentences |-> <<>>, context_prefix |-> <<"c", ":">>,
      examples_location |-> "append"],
     [name |-> "tester", vocabulary_mappings |-> FixMapping,
      example_sentences |-> << <<"e">> >>, context_prefix |-> <<"c", ":">>,
      examples_location |-> "prepend"],
     [name |-> "tester2", vocabulary_mappings |-> <<>>,
      example_sentences |-> << <<"e">> >>, context_prefix |-> <<>>,
      examples_location |-> "append"],
     [name |-> "framed", vocabulary_mappings |-> FixMapping,
      example_sentences |-> << <<"e">> >>, context_prefix |-> <<"c", ":">>,
      examples_location |-> "none"],
     [name |-> "bare", vocabulary_mappings |-> FixMapping,
      example_sentences |-> <<>>, context_prefix |-> <<>>,
      examples_location |-> "none"],
     [name |-> "examples", vocabulary_mappings |-> <<>>,
      example_sentences |-> << <<"e">> >>, context_prefix |-> <<>>,
      examples_location |-> "prepend"]}

(***************************************************************************)
(* The calls as a state machine                                            *)
(***************************************************************************)

VARIABLES
    pc,           \* where control is: "layered", "multi", "profiles",
                  \* "budget", "returned", "raised"
    caller,       \* who called layered_summarize: "direct" or "multi"
    text,         \* the argument text
    char_budget,  \* layered_summarize: char_budget
    layers,       \* the argument layers
    persona,      \* layered_summarize: persona; multi: persona_obj (Optional)
    i,            \* the index in layers of the next iteration
    results,      \* layered_summarize: results
    profiles,     \* multi_profile_summarize: profiles
    persona_name, \* multi_profile_summarize: persona (Optional name)
    j,            \* the index in profiles of the next iteration
    mresults,     \* multi_profile_summarize: results
    log,          \* the iterations so far: layer, branch taken, char_budget,
                  \* the summarizer's arguments and result, results[layer]
    budgets,      \* the calls of compute_budget so far: buffer and result
    ret,          \* the value returned to the outermost caller (Optional)
    err,          \* the message of the exception raised (Optional)
    cli,          \* cmd_summarize_multi: args, what was printed to stdout and
                  \* stderr, the exit status
    shot,         \* screenshot_aware_summarize: its profiles argument, the OCR
                  \* result, adjusted_profiles
    shared        \* the objects every call shares: the default layer lists
                  \* and the built-in tables

vars ==
    <<pc, caller, text, char_budget, layers, persona, i, results, profiles,
      persona_name, j, mresults, log, budgets, ret, err, cli, shot, shared>>

\* what the calls of layered_summarize and multi_profile_summarize and of
\* compute_budget never touch
outer == <<cli, shot, shared>>

\* layers: List[str] = ['headline', 'one_screen', 'deep'], the one list object
\* every call of multi_profile_summarize without layers gets
MultiDefaultLayers == <<"headline", "one_screen", "deep">>

\* layers: List[str] = ['headline', 'one_screen'] of screenshot_aware_summarize
ShotDefaultLayers == <<"headline", "one_screen">>

\* the module-level objects and the default arguments
SharedObjects ==
    [multi_layers |-> MultiDefaultLayers,
     shot_layers |-> ShotDefaultLayers,
     DEFAULT_PROFILES |-> DEFAULT_PROFILES,
     DEFAULT_LAYERS |-> DEFAULT_LAYERS,
     BUILTIN_PERSONAS |-> BUILTIN_PERSONAS]

\* no command is running
NoCli ==
    [active |-> FALSE, profiles |-> <<>>, layers |-> <<>>, persona |-> None,
     format |-> "compact", stdout |-> None, stderr |-> None, status |-> None]

\* no screenshot call is running
NoShot ==
    [active |-> FALSE, profiles |-> <<>>, text_density |-> 0, regions_found |-> 0,
     adjusted_profiles |-> <<>>]

\* a call made from Python, not from the command line or on a screenshot
NoOuter == cli = NoCli /\ shot = NoShot /\ shared = SharedObjects

\* nothing has run yet
Fresh ==
    /\ i = 1
    /\ results = <<>>
    /\ j = 1
    /\ mresults = <<>>
    /\ log = <<>>
    /\ budgets = <<>>
    /\ ret = None
    /\ err = None

AnyPersona == {None} \cup {Some(p) : p \in Personas}

\* layered_summarize(text, char_budget, [layer], persona) is entered: every
\* text, budget and persona with one known layer
InitLayer ==
    /\ pc = "layered"
    /\ caller = "direct"
    /\ text \in Texts \cup SentenceTexts
    /\ char_budget \in Budgets
    /\ layers \in [1..1 -> LayerNames]
    /\ persona \in AnyPersona
    /\ profiles = <<>>
    /\ persona_name = None
    /\ Fresh
    /\ NoOuter

\* layered_summarize(text, char_budget, layers, persona) is entered: every
\* request of at most MaxLayers names, known or not
InitRequest ==
    /\ pc = "layered"
    /\ caller = "direct"
    /\ text \in RequestTexts
    /\ char_budget \in RequestBudgets
    /\ layers \in LayerLists
    /\ persona \in AnyPersona
    /\ profiles = <<>>
    /\ persona_name = None
    /\ Fresh
    /\ NoOuter

Init == InitLayer \/ InitRequest

\* one iteration of the loop for a known layer (lines 161-215)
LayerIteration ==
    /\ pc = "layered"
    /\ i <= Len(layers)
    /\ layers[i] \in LayerNames
    /\ LET layer_name == layers[i]
           branch == BranchOf(layer_name, char_budget, persona)
           arg  == SummarizerText(layer_name, text, char_budget, persona)
           lim  == SummarizerLimit(layer_name, char_budget, persona)
           out  == summarizer(arg, lim)
           res  == LayerResult(layer_name, text, branch, persona, out)
       IN  /\ results' = DictSet(results, layer_name, res)
           /\ log' = Append(log, [layer |-> layer_name, branch |-> branch,
                                  total |-> char_budget, text |-> arg,
                                  limit |-> lim, out |-> out, result |-> res])
    /\ i' = i + 1
    /\ UNCHANGED <<pc, caller, text, char_budget, layers, persona, profiles,
                   persona_name, j, mresults, budgets, ret, err>>
    /\ UNCHANGED outer

\* raise ValueError(f"Unknown layer: {layer_name}") (lines 158-159)
UnknownLayerError(layer_name) == Some(<<"Unknown layer: ", layer_name>>)

\* a layered_summarize that hands back what it has on an unknown layer
RaisedValue_Partial(partial) == Some(partial)

\* what the caller of a layered_summarize that raised gets back: nothing
RaisedValue(partial) == None

\* an iteration that meets an unknown layer name: the exception leaves
\* layered_summarize and, uncaught, multi_profile_summarize
LayerUnknown ==
    /\ pc = "layered"
    /\ i <= Len(layers)
    /\ layers[i] \notin LayerNames
    /\ pc' = "raised"
    /\ err' = UnknownLayerError(layers[i])
    /\ ret' = RaisedValue(results)
    /\ UNCHANGED <<caller, text, char_budget, layers, persona, i, results, profiles,
                   persona_name, j, mresults, log, budgets>>
    /\ UNCHANGED outer

\* return results (line 217); in multi_profile_summarize the value is
\* stored under the profile's name (line 272)
LayeredReturn ==
    /\ pc = "layered"
    /\ i > Len(layers)
    /\ IF caller = "multi"
       THEN /\ mresults' = DictSet(mresults, profiles[j].name, results)
            /\ j' = j + 1
            /\ pc' = "profiles"
            /\ ret' = ret
       ELSE /\ ret' = Some(results)
            /\ pc' = "returned"
            /\ UNCHANGED <<j, mresults>>
    /\ UNCHANGED <<caller, text, char_budget, layers, persona, i, results, profiles,
                   persona_name, log, budgets, err>>
    /\ UNCHANGED outer

Next == LayerIteration \/ LayerUnknown \/ LayeredReturn

Spec == Init /\ [][Next]_vars

(***************************************************************************)
(* multi_profile_summarize                                                 *)
(***************************************************************************)

\* multi_profile_summarize(text, profiles, layers, persona) is entered
InitMulti ==
    /\ pc = "multi"
    /\ caller = "multi"
    /\ text \in MultiTexts
    /\ profiles \in ProfileLists
    /\ shared = SharedObjects
    /\ layers \in MultiLayerLists \cup {shared.multi_layers}
    /\ persona_name \in PersonaNames
    /\ persona = None
    /\ char_budget = 0
    /\ Fresh
    /\ NoOuter

\* if persona: a name is given when it is neither None nor empty
Truthy(name) == name # None /\ name[1] # ""

\* the message without the list of known names
UnknownPersonaError_NoNames(name) == Some(<<"Unknown persona: ", name>>)

\* raise ValueError(f"Unknown persona: {persona}. Available: {...}")
UnknownPersonaError(name) ==
    Some(<<"Unknown persona: ", name, ". Available: ", BuiltinPersonaNames>>)

\* lines 243-246: the persona name is not a built-in one
MultiUnknownPersona ==
    /\ pc = "multi"
    /\ Truthy(persona_name)
    /\ ~IsBuiltinPersona(persona_name[1])
    /\ pc' = "raised"
    /\ err' = UnknownPersonaError(persona_name[1])
    /\ UNCHANGED <<caller, text, char_budget, layers, persona, i, results, profiles,
                   persona_name, j, mresults, log, budgets, ret>>
    /\ UNCHANGED outer

\* lines 243-249: persona_obj is looked up, or stays None
MultiResolvePersona ==
    /\ pc = "multi"
    /\ ~(Truthy(persona_name) /\ ~IsBuiltinPersona(persona_name[1]))
    /\ persona' = IF Truthy(persona_name) THEN Some(BuiltinPersona(persona_name[1]))
                  ELSE None
    /\ pc' = "profiles"
    /\ UNCHANGED <<caller, text, char_budget, layers, i, results, profiles,
                   persona_name, j, mresults, log, budgets, ret, err>>
    /\ UNCHANGED outer

\* lines 251-270: the budget of the next profile is computed and
\* layered_summarize is called with its target_chars
MultiProfile ==
    /\ pc = "profiles"
    /\ j <= Len(profiles)
    /\ LET profile == profiles[j]
           budget  == compute_budget(profile.width_px, profile.height_px,
                                     profile.font_size_px,
                                     profile.editor_ruler_columns, profile.buffer)
       IN  /\ budgets' = Append(budgets, [buffer |-> profile.buffer, budget |-> budget])
           /\ char_budget' = budget.target_chars
    /\ i' = 1
    /\ results' = <<>>
    /\ pc' = "layered"
    /\ UNCHANGED <<caller, text, layers, persona, profiles, persona_name, j,
                   mresults, log, ret, err>>
    /\ UNCHANGED outer

\* return results (line 274)
MultiReturn ==
    /\ pc = "profiles"
    /\ j > Len(profiles)
    /\ pc' = "returned"
    /\ ret' = Some(mresults)
    /\ UNCHANGED <<caller, text, char_budget, layers, persona, i, results, profiles,
                   persona_name, j, mresults, log, budgets, err>>
    /\ UNCHANGED outer

NextMulti ==
    \/ MultiUnknownPersona
    \/ MultiResolvePersona
    \/ MultiProfile
    \/ LayerIteration
    \/ LayerUnknown
    \/ LayeredReturn
    \/ MultiReturn

SpecMulti == InitMulti /\ [][NextMulti]_vars

(***************************************************************************)
(* compute_budget called on its own                                        *)
(***************************************************************************)

InitBudget ==
    /\ pc = "budget"
    /\ caller = "direct"
    /\ text = <<>>
    /\ char_budget = 0
    /\ layers = <<>>
    /\ persona = None
    /\ profiles = <<>>
    /\ persona_name = None
    /\ Fresh
    /\ NoOuter

\* compute_budget(width_px, height_px, font_size_px,
\*                editor_ruler_columns=..., buffer=...)
ComputeBudget ==
    /\ pc = "budget"
    /\ \E width_px \in 1..MaxWidth, height_px \in 1..MaxHeight,
          font_size_px \in FontSizes,
          editor_ruler_columns \in {None} \cup {Some(c) : c \in 1..MaxRuler},
          buffer \in Buffers :
            LET budget == compute_budget(width_px, height_px, font_size_px,
                                         editor_ruler_columns, buffer)
            IN  /\ budgets' = Append(budgets, [buffer |-> buffer, budget |-> budget])
                /\ ret' = Some(budget)
    /\ pc' = "returned"
    /\ UNCHANGED <<caller, text, char_budget, layers, persona, i, results, profiles,
                   persona_name, j, mresults, log, err>>
    /\ UNCHANGED outer

\* compute_budget with the fields of a built-in profile
ComputeProfileBudget ==
    /\ pc = "budget"
    /\ \E name \in DOMAIN DEFAULT_PROFILES :
            LET profile == DEFAULT_PROFILES[name]
                budget  == compute_budget(profile.width_px, profile.height_px,
                                          profile.font_size_px,
                                          profile.editor_ruler_columns, profile.buffer)
            IN  /\ budgets' = Append(budgets, [buffer |-> profile.buffer,
                                                budget |-> budget])
                /\ ret' = Some(budget)
                /\ profiles' = <<profile>>
    /\ pc' = "returned"
    /\ UNCHANGED <<caller, text, char_budget, layers, persona, i, results,
                   persona_name, j, mresults, log, err>>
    /\ UNCHANGED outer

NextBudget == ComputeBudget \/ ComputeProfileBudget

SpecBudget == InitBudget /\ [][NextBudget]_vars

\* both direct calls of layered_summarize and calls of multi_profile_summarize
SpecAll == (Init \/ InitMulti) /\ [][NextMulti]_vars

(***************************************************************************)
(* vision_ui/summarize.py: screenshot_aware_summarize. The OCR analyzer is *)
(* outside: it fails, or it gives the text (the variable text), the        *)
(* density in hundredths and the number of regions. A buffer of 0.7 that   *)
(* comes from the clamp is the double 0.7, for which int(char_budget *     *)
(* 0.7) is one below the decimal floor for some multiples of 10; the       *)
(* profiles of ShotProfiles have no such char_budget.                      *)
(***************************************************************************)

\* max(0.7, buffer - 0.1) when dense
BufferFloor == 70

\* min(0.95, buffer + 0.05) when sparse
BufferCeiling == 95

DenseAbove == 70

SparseBelow == 30

\* an adjustment that does not clamp
AdjustedBuffer_NoClamp(buffer, text_density) ==
    IF text_density > DenseAbove THEN buffer - 10
    ELSE IF text_density < SparseBelow THEN buffer + 5
    ELSE buffer

\* lines 410-413: the buffer of the adjusted copy
AdjustedBuffer(buffer, text_density) ==
    IF text_density > DenseAbove THEN Max(BufferFloor, buffer - 10)
    ELSE IF text_density < SparseBelow THEN Min(BufferCeiling, buffer + 5)
    ELSE buffer

\* lines 398-406: a new Profile with the fields of profile
CopyOf(profile) ==
    [name |-> profile.name, width_px |-> profile.width_px,
     height_px |-> profile.height_px, font_size_px |-> profile.font_size_px,
     editor_ruler_columns |-> profile.editor_ruler_columns,
     buffer |-> profile.buffer, image_regions |-> profile.image_regions]

AdjustedCopies(profile_list, text_density) ==
    [k \in 1..Len(profile_list) |->
        [CopyOf(profile_list[k]) EXCEPT !.buffer = AdjustedBuffer(profile_list[k].buffer, text_density)]]

\* an adjustment written to the caller's objects
_adjust_profiles_for_screenshot_InPlace(profile_list, ocr_result, text_density) ==
    [originals |-> AdjustedCopies(profile_list, text_density),
     adjusted  |-> AdjustedCopies(profile_list, text_density)]

\* _adjust_profiles_for_screenshot: what the objects of the argument hold
\* afterwards (originals) and the list returned (adjusted)
_adjust_profiles_for_screenshot(profile_list, ocr_result, text_density) ==
    [originals |-> profile_list,
     adjusted  |-> AdjustedCopies(profile_list, text_density)]

\* the profiles screenshot_aware_summarize is called with: built-in ones, a
\* caller-made one below the floor, one at 1.0 under the name of the metadata
ShotProfiles ==
    {DEFAULT_PROFILES.laptop,
     DEFAULT_PROFILES.slides,
     Profile("tiny", 40, 24, 14, Some(80), 50),
     Profile("_ocr_metadata", 100, 40, 14, None, 100)}

MaxShotProfiles == 2

ShotProfileLists == UNION {[1..n -> ShotProfiles] : n \in 0..MaxShotProfiles}

\* text densities in hundredths, on both sides of the two thresholds
Densities == {0, SparseBelow - 1, SparseBelow, DenseAbove, DenseAbove + 1, 100}

\* full_text of the OCR result: a text, blanks only, or nothing
ShotTexts == {Concat(<<(<<"a", "a", "a", "a", "a", "a">>), (<<".">>), (<<"f", "i", "x">>)>>), <<" ">>, <<>>}

ShotPersonaNames == {None, Some("developer"), Some("nonexistent")}

\* screenshot_aware_summarize(image_path, profiles, layers, persona)
InitShot ==
    /\ pc = "shot"
    /\ caller = "multi"
    /\ text \in ShotTexts
    /\ shared = SharedObjects
    /\ layers \in {shared.shot_layers, <<"deep">>, <<"invalid_layer">>}
    /\ persona_name \in ShotPersonaNames
    /\ \E ps \in ShotProfileLists, d \in Densities :
           shot = [active |-> TRUE, profiles |-> ps, text_density |-> d,
                   regions_found |-> IF d = 0 THEN 0 ELSE 1,
                   adjusted_profiles |-> <<>>]
    /\ profiles = <<>>
    /\ persona = None
    /\ char_budget = 0
    /\ cli = NoCli
    /\ Fresh

\* a test of the text that takes blanks for text
HasText_NoStrip(full_text) == full_text # <<>>

\* line 346: ocr_result.full_text.strip() is not empty
HasText(full_text) == Strip(full_text) # <<>>

\* lines 341-344: the analyzer raises
ShotAnalyzeFails ==
    /\ pc = "shot"
    /\ pc' = "raised"
    /\ err' = Some(<<"Failed to analyze screenshot: ">>)
    /\ UNCHANGED <<caller, text, char_budget, layers, persona, i, results, profiles,
                   persona_name, j, mresults, log, budgets, ret, cli, shot, shared>>

\* lines 346-347: no text in the screenshot
ShotNoText ==
    /\ pc = "shot"
    /\ ~HasText(text)
    /\ pc' = "raised"
    /\ err' = Some(<<"No text found in screenshot">>)
    /\ UNCHANGED <<caller, text, char_budget, layers, persona, i, results, profiles,
                   persona_name, j, mresults, log, budgets, ret, cli, shot, shared>>

\* lines 349-365: the profiles are adjusted and multi_profile_summarize is
\* called with adjusted_profiles
ShotAdjust ==
    /\ pc = "shot"
    /\ HasText(text)
    /\ LET r == _adjust_profiles_for_screenshot(shot.profiles, text, shot.text_density)
       IN  /\ shot' = [shot EXCEPT !.profiles = r.originals,
                                   !.adjusted_profiles = r.adjusted]
           /\ profiles' = r.adjusted
    /\ pc' = "multi"
    /\ UNCHANGED <<caller, text, char_budget, layers, persona, i, results,
                   persona_name, j, mresults, log, budgets, ret, err, cli, shared>>

\* the metadata dict of lines 368-373
OcrMetadata(s) ==
    <<[k |-> "text_density", v |-> s.text_density],
      [k |-> "regions_found", v |-> s.regions_found],
      [k |-> "preprocessing_applied", v |-> <<>>],
      [k |-> "image_size", v |-> <<1920, 1080>>]>>

MetadataKey == "_ocr_metadata"

\* lines 367-375: summaries['_ocr_metadata'] = {...}; return summaries
ShotReturn ==
    /\ pc = "returned"
    /\ shot.active
    /\ ret # None
    /\ ret' = Some(DictSet(ret[1], MetadataKey, OcrMetadata(shot)))
    /\ pc' = "shot_returned"
    /\ UNCHANGED <<caller, text, char_budget, layers, persona, i, results, profiles,
                   persona_name, j, mresults, log, budgets, err, cli, shot, shared>>

NextShot ==
    \/ ShotAnalyzeFails
    \/ ShotNoText
    \/ ShotAdjust
    \/ MultiUnknownPersona
    \/ MultiResolvePersona
    \/ MultiProfile
    \/ LayerIteration
    \/ LayerUnknown
    \/ LayeredReturn
    \/ MultiReturn
    \/ ShotReturn

\* calls of screenshot_aware_summarize and of multi_profile_summarize
SpecShot == (InitShot \/ InitMulti) /\ [][NextShot]_vars

(***************************************************************************)
(* vision_ui/cli.py: the summarize-multi command, with                     *)
(* vision_ui/profiles.py: parse_profiles_from_cli and                      *)
(* vision_ui/summarize.py: format_multi_profile_output. The arguments      *)
(* --profiles and --layers are strings. The profile files that exist are   *)
(* those of ProfileFiles: one that holds a profile and one that does not   *)
(* load.                                                                   *)
(***************************************************************************)

\* the characters of the names that occur
Chars ==
    [laptop |-> <<"l", "a", "p", "t", "o", "p">>,
     phone |-> <<"p", "h", "o", "n", "e">>,
     slides |-> <<"s", "l", "i", "d", "e", "s">>,
     tweet |-> <<"t", "w", "e", "e", "t">>,
     tiny |-> <<"t", "i", "n", "y">>,
     nosuch |-> <<"n", "o", "s", "u", "c", "h">>,
     broken |-> <<"b", "r", "o", "k", "e", "n">>,
     _ocr_metadata |-> <<"_", "o", "c", "r", "_", "m", "e", "t", "a", "d", "a", "t", "a">>,
     headline |-> <<"h", "e", "a", "d", "l", "i", "n", "e">>,
     one_screen |-> <<"o", "n", "e", "_", "s", "c", "r", "e", "e", "n">>,
     deep |-> <<"d", "e", "e", "p">>,
     invalid_layer |-> <<"i", "n", "v", "a", "l", "i", "d", "_", "l", "a", "y", "e", "r">>]

\* the name a string of characters spells
NameOf(s) == CHOOSE n \in DOMAIN Chars : Chars[n] = s

LowerCase == <<"a", "b", "c", "d", "e", "f", "g", "h", "i", "j", "k", "l", "m", "n", "o", "p", "q", "r", "s", "t", "u", "v", "w", "x", "y", "z">>

UpperCase == <<"A", "B", "C", "D", "E", "F", "G", "H", "I", "J", "K", "L", "M", "N", "O", "P", "Q", "R", "S", "T", "U", "V", "W", "X", "Y", "Z">>

IsLetter(c) == \E n \in 1..26 : LowerCase[n] = c \/ UpperCase[n] = c

\* str.upper() of one character
UpperChar(c) ==
    IF \E n \in 1..26 : LowerCase[n] = c
    THEN UpperCase[CHOOSE n \in 1..26 : LowerCase[n] = c] ELSE c

\* str.lower() of one character
LowerChar(c) ==
    IF \E n \in 1..26 : UpperCase[n] = c
    THEN LowerCase[CHOOSE n \in 1..26 : UpperCase[n] = c] ELSE c

\* str.upper()
Upper(s) == [n \in 1..Len(s) |-> UpperChar(s[n])]

\* str.title(): a letter that follows no letter is upper case, the others lower
Title(s) ==
    [n \in 1..Len(s) |->
        IF n = 1 \/ ~IsLetter(s[n - 1]) THEN UpperChar(s[n]) ELSE LowerChar(s[n])]

\* keep the elements that are not empty, stripped
RECURSIVE StrippedNonEmpty(_)
StrippedNonEmpty(parts) ==
    IF parts = <<>> THEN <<>>
    ELSE IF Strip(Head(parts)) # <<>>
         THEN <<Strip(Head(parts))>> \o StrippedNonEmpty(Tail(parts))
         ELSE StrippedNonEmpty(Tail(parts))

\* [x.strip() for x in s.split(',') if x.strip()]
CommaNames(s) == StrippedNonEmpty(Split(s, ","))

\* the profile files found by name: what Profile.from_dict gives for the
\* content of the file, None when the content does not load
ProfileFiles ==
    [tiny   |-> Some(Profile("tiny", 40, 24, 14, Some(80), 50)),
     broken |-> None]

\* load_profile(name_or_path): the built-in object, else the profile of the
\* file, else ValueError("Invalid profile file ...") or
\* ValueError("Profile not found: ...")
load_profile(name) ==
    IF name \in DOMAIN DEFAULT_PROFILES
    THEN [ok |-> TRUE, value |-> DEFAULT_PROFILES[name], error |-> <<>>]
    ELSE IF name \in DOMAIN ProfileFiles
         THEN IF ProfileFiles[name] # None
              THEN [ok |-> TRUE, value |-> ProfileFiles[name][1], error |-> <<>>]
              ELSE [ok |-> FALSE, value |-> <<>>, error |-> <<"Invalid profile file ", name>>]
         ELSE [ok |-> FALSE, value |-> <<>>, error |-> <<"Profile not found: ", name>>]

\* load_profile returns a profile
ProfileFound(name) == load_profile(name).ok

\* ValueError(f"Failed to load profile '{name}': {e}") with e the ValueError
\* of load_profile
ProfileError(name) ==
    <<"Failed to load profile '", name, "': ">> \o load_profile(name).error

\* a loop that leaves out the names that do not load
RECURSIVE LoadAll_SkipUnknown(_)
LoadAll_SkipUnknown(names) ==
    IF names = <<>> THEN [ok |-> TRUE, value |-> <<>>, error |-> <<>>]
    ELSE LET rest == LoadAll_SkipUnknown(Tail(names))
         IN  IF ProfileFound(NameOf(Head(names)))
             THEN [rest EXCEPT !.value = <<load_profile(NameOf(Head(names))).value>> \o rest.value]
             ELSE rest

\* parse_profiles_from_cli: the profiles, or the error of the first name that
\* does not load
RECURSIVE LoadAll(_)
LoadAll(names) ==
    IF names = <<>> THEN [ok |-> TRUE, value |-> <<>>, error |-> <<>>]
    ELSE IF ~ProfileFound(NameOf(Head(names)))
         THEN [ok |-> FALSE, value |-> <<>>, error |-> ProfileError(NameOf(Head(names)))]
         ELSE LET rest == LoadAll(Tail(names))
              IN  IF rest.ok
                  THEN [rest EXCEPT !.value = <<load_profile(NameOf(Head(names))).value>> \o rest.value]
                  ELSE rest

parse_profiles_from_cli(profile_names) ==
    IF Strip(profile_names) = <<>> THEN [ok |-> TRUE, value |-> <<>>, error |-> <<>>]
    ELSE LoadAll(CommaNames(profile_names))

\* the lines of the compact form, one per profile and layer
RECURSIVE CompactLines(_)
CompactLines(summaries) ==
    IF summaries = <<>> THEN <<>>
    ELSE LET profile_name == Head(summaries).k
             profile_summaries == Head(summaries).v
         IN  [n \in 1..Len(profile_summaries) |->
                 Chars[profile_name] \o <<".">> \o Chars[profile_summaries[n].k]
                     \o <<":", " ">> \o profile_summaries[n].v]
             \o CompactLines(Tail(summaries))

\* the lines of one profile's layers in the stacked form
RECURSIVE StackedLayerLines(_)
StackedLayerLines(profile_summaries) ==
    IF profile_summaries = <<>> THEN <<>>
    ELSE <<(<<"-", "-", "-", " ">>
              \o Replace(Title(Chars[Head(profile_summaries).k]), <<"_">>, <<" ">>)
              \o <<" ", "-", "-", "-">>),
           Strip(Head(profile_summaries).v),
           <<>>>>
         \o StackedLayerLines(Tail(profile_summaries))

\* the lines of the stacked form
RECURSIVE StackedLines(_)
StackedLines(summaries) ==
    IF summaries = <<>> THEN <<>>
    ELSE <<(<<"=", "=", "=", " ">> \o Upper(Chars[Head(summaries).k]) \o <<" ", "=", "=", "=">>)>>
         \o StackedLayerLines(Head(summaries).v)
         \o <<(<<>>)>>
         \o StackedLines(Tail(summaries))

\* json.dumps of a str
RECURSIVE JsonEscape(_)
JsonEscape(s) ==
    IF s = <<>> THEN <<>>
    ELSE (IF Head(s) = "\n" THEN <<"\\", "n">>
          ELSE IF Head(s) = "\"" THEN <<"\\", "\"">>
          ELSE IF Head(s) = "\\" THEN <<"\\", "\\">>
          ELSE <<Head(s)>>)
         \o JsonEscape(Tail(s))

JsonString(s) == <<"\"">> \o JsonEscape(s) \o <<"\"">>

\* json.dumps(d, indent=2) of the dict of one profile, two levels deep
JsonLayers(profile_summaries) ==
    IF profile_summaries = <<>> THEN <<"{", "}">>
    ELSE <<"{", "\n">>
         \o Join(<<",", "\n">>,
                 [n \in 1..Len(profile_summaries) |->
                     <<" ", " ", " ", " ">> \o JsonString(Chars[profile_summaries[n].k])
                         \o <<":", " ">> \o JsonString(profile_summaries[n].v)])
         \o <<"\n", " ", " ", "}">>

\* json.dumps(summaries, indent=2)
JsonDump(summaries) ==
    IF summaries = <<>> THEN <<"{", "}">>
    ELSE <<"{", "\n">>
         \o Join(<<",", "\n">>,
                 [n \in 1..Len(summaries) |->
                     <<" ", " ">> \o JsonString(Chars[summaries[n].k])
                         \o <<":", " ">> \o JsonLayers(summaries[n].v)])
         \o <<"\n", "}">>

\* a compact form that puts a blank between the entries
format_multi_profile_output_Blank(summaries, format_type) ==
    IF format_type = "json" THEN JsonDump(summaries)
    ELSE IF format_type = "compact" THEN Join(<<" ">>, CompactLines(summaries))
    ELSE Strip(Join(NL, StackedLines(summaries)))

\* format_multi_profile_output(summaries, format_type)
format_multi_profile_output(summaries, format_type) ==
    IF format_type = "json" THEN JsonDump(summaries)
    ELSE IF format_type = "compact" THEN Join(NL, CompactLines(summaries))
    ELSE Strip(Join(NL, StackedLines(summaries)))

\* the items of --profiles and of --layers
ProfileItems ==
    {Chars.laptop, Chars.tweet, Chars.nosuch, <<>>, <<" ">> \o Chars.phone,
     Chars.tiny \o <<" ">>, Chars.broken}

LayerItems == {Chars.headline, Chars.deep, Chars.invalid_layer, <<>>}

MaxItems == 2

ProfileArgs == {Join(<<",">>, items) : items \in UNION {[1..n -> ProfileItems] : n \in 1..MaxItems}}

LayerArgs == {Join(<<",">>, items) : items \in UNION {[1..n -> LayerItems] : n \in 1..MaxItems}}

CliPersonas == {None, Some(""), Some("developer"), Some("nonexistent")}

Formats == {"stacked", "json", "compact"}

\* the text of --file
CliTexts == {<<"f", "i", "x">>, Concat(<<(<<"a", "a", "a", "a", "a", "a">>), (<<".">>), (<<"f", "i", "x">>)>>)}

\* cmd_summarize_multi(args) is entered with the text read
InitCli ==
    /\ pc = "cli"
    /\ caller = "multi"
    /\ text \in CliTexts
    /\ \E pa \in ProfileArgs, la \in LayerArgs, pe \in CliPersonas, f \in Formats :
           cli = [active |-> TRUE, profiles |-> pa, layers |-> la, persona |-> pe,
                  format |-> f, stdout |-> None, stderr |-> None, status |-> None]
    /\ shot = NoShot
    /\ shared = SharedObjects
    /\ profiles = <<>>
    /\ layers = <<>>
    /\ persona_name = None
    /\ persona = None
    /\ char_budget = 0
    /\ Fresh

\* lines 116-120: parse_profiles_from_cli raises; the error is printed and
\* the command exits with status 1
CmdProfilesFail ==
    /\ pc = "cli"
    /\ ~parse_profiles_from_cli(cli.profiles).ok
    /\ cli' = [cli EXCEPT !.stderr = Some(<<"Error: ">> \o parse_profiles_from_cli(cli.profiles).error),
                          !.status = Some(1)]
    /\ pc' = "exited"
    /\ UNCHANGED <<caller, text, char_budget, layers, persona, i, results, profiles,
                   persona_name, j, mresults, log, budgets, ret, err, shot, shared>>

\* lines 116-131: the profiles and the layers are parsed and
\* multi_profile_summarize is called
CmdCall ==
    /\ pc = "cli"
    /\ parse_profiles_from_cli(cli.profiles).ok
    /\ profiles' = parse_profiles_from_cli(cli.profiles).value
    /\ layers' = [n \in 1..Len(CommaNames(cli.layers)) |-> NameOf(CommaNames(cli.layers)[n])]
    /\ persona_name' = cli.persona
    /\ pc' = "multi"
    /\ UNCHANGED <<caller, text, char_budget, persona, i, results,
                   j, mresults, log, budgets, ret, err, cli, shot, shared>>

\* lines 132-134: a ValueError of multi_profile_summarize is printed and the
\* command exits with status 1
CmdCatch ==
    /\ pc = "raised"
    /\ cli.active
    /\ cli' = [cli EXCEPT !.stderr = Some(<<"Error: ">> \o err[1]), !.status = Some(1)]
    /\ pc' = "exited"
    /\ UNCHANGED <<caller, text, char_budget, layers, persona, i, results, profiles,
                   persona_name, j, mresults, log, budgets, ret, err, shot, shared>>

\* lines 137-139: the summaries are formatted and printed; the command ends
\* with status 0
CmdPrint ==
    /\ pc = "returned"
    /\ cli.active
    /\ cli' = [cli EXCEPT !.stdout = Some(format_multi_profile_output(ret[1], cli.format) \o NL),
                          !.status = Some(0)]
    /\ pc' = "exited"
    /\ UNCHANGED <<caller, text, char_budget, layers, persona, i, results, profiles,
                   persona_name, j, mresults, log, budgets, ret, err, shot, shared>>

NextCli ==
    \/ CmdProfilesFail
    \/ CmdCall
    \/ MultiUnknownPersona
    \/ MultiResolvePersona
    \/ MultiProfile
    \/ LayerIteration
    \/ LayerUnknown
    \/ LayeredReturn
    \/ MultiReturn
    \/ CmdCatch
    \/ CmdPrint

\* runs of the summarize-multi command
SpecCli == InitCli /\ [][NextCli]_vars

(***************************************************************************)
(* naive_summarize called on its own                                       *)
(***************************************************************************)

\* the largest char_limit of a direct call
MaxLimit == 20

PackLimits == 0..MaxLimit

\* a first sentence longer than the lower bound of max_chars, then a short one
LongFirstSentence ==
    <<"a", "a", "a", "a", "a", "a", "a", "a", "a", "a", "a", "a", ".", "f", "i", "x">>

PackTexts == Texts \cup SentenceTexts \cup {LongFirstSentence}

\* the calls of one text a caller makes
MaxCalls == 2

\* a caller holds a text and has not called naive_summarize yet
InitPack ==
    /\ pc = "pack"
    /\ caller = "direct"
    /\ text \in PackTexts
    /\ char_budget = 0
    /\ layers = <<>>
    /\ persona = None
    /\ profiles = <<>>
    /\ persona_name = None
    /\ Fresh
    /\ NoOuter

\* naive_summarize(text, char_limit) is called and returns
PackCall ==
    /\ pc = "pack"
    /\ Len(log) < MaxCalls
    /\ \E char_limit \in PackLimits :
          LET out == naive_summarize(text, char_limit)
          IN  log' = Append(log, [layer |-> "", branch |-> "packer",
                                  total |-> char_limit, text |-> text,
                                  limit |-> char_limit, out |-> out, result |-> out])
    /\ UNCHANGED <<pc, caller, text, char_budget, layers, persona, i, results,
                   profiles, persona_name, j, mresults, budgets, ret, err>>
    /\ UNCHANGED outer

NextPack == PackCall \/ Next

SpecPack == (InitPack \/ InitRequest) /\ [][NextPack]_vars

(***************************************************************************)
(* The claims                                                              *)
(***************************************************************************)

Entries == {log[k] : k \in 1..Len(log)}

\* the persona material the append branch attaches after packing
Appended(c) ==
    IF c.branch = "append" /\ postfix_items(persona[1]) # <<>>
    THEN NLNL \o Join(NLNL, postfix_items(persona[1]))
    ELSE <<>>

\* the tag put before the result of a layer that requires one
TagOf(c) == IF c.layer = "deep" THEN HashTag(text) ELSE <<>>

\* the result of an iteration without its tag and its appended material
PackedBody(c) ==
    SubSeq(c.result, Len(TagOf(c)) + 1, Len(c.result) - Len(Appended(c)))

\* the packing ceiling the specification gives a layer
PackingCeiling(c) ==
    (CASE c.layer = "headline"   -> c.total \div 10
       [] c.layer = "one_screen" -> (c.total * 8) \div 10
       [] c.layer = "deep"       -> c.total - 15)
    - (IF c.branch = "full" THEN _calculate_persona_overhead(persona[1]) ELSE 0)

\* every result is its tag, its packed body and its appended material
Decomposes(c) == c.result = TagOf(c) \o PackedBody(c) \o Appended(c)

\* C1 as stated: the packed body of every layer's output is no longer than
\* the layer's packing ceiling
C1_BodyWithinCeiling ==
    \A c \in Entries : Decomposes(c) /\ Len(PackedBody(c)) <= PackingCeiling(c)

\* C1 amended: the packed body of every layer's output is no longer than the
\* larger of the layer's packing ceiling and the 10 characters the packing
\* strategy never goes below
C1_BodyWithinFlooredCeiling ==
    \A c \in Entries :
        Decomposes(c) /\ Len(PackedBody(c)) <= Max(10, PackingCeiling(c))

\* a text cut down to exactly a ceiling above the floor
C1_Witness ==
    \E c \in Entries :
        /\ PackingCeiling(c) > 10
        /\ Len(PackedBody(c)) = PackingCeiling(c)
        /\ Len(c.text) > PackingCeiling(c)

\* C2: with no persona and at least 10 characters left after the 15 reserved
\* for the tag, the whole deep output (tag and packed body) is no longer than
\* the deep ceiling floor(char_budget * 1.0)
C2_DeepWithinTotal ==
    \A c \in Entries :
        (c.layer = "deep" /\ persona = None /\ c.total - 15 >= 10)
            => Len(c.result) <= c.total

\* C3 as stated: with no persona every layer's whole output is no longer
\* than int(total * multiplier) + 10, whatever the total
C3_WithinTolerance ==
    \A c \in Entries :
        persona = None
            => Len(c.result)
                 <= (c.total * DEFAULT_LAYERS[c.layer].budget_multiplier) \div 10 + 10

\* C3 amended: with no persona the whole output is no longer than
\* int(total * multiplier) + 10 for headline and one_screen at every total,
\* and for deep at every total of at least 16; a deep output is never longer
\* than 26 characters below that
C3_WithinToleranceFrom16 ==
    \A c \in Entries :
        persona = None
            => IF c.layer = "deep" /\ c.total < 16
               THEN Len(c.result) <= 26
               ELSE Len(c.result)
                      <= (c.total * DEFAULT_LAYERS[c.layer].budget_multiplier) \div 10
                         + 10

\* a deep output of a profile's budget that is longer than its ceiling but
\* within the tolerance
C3_Witness ==
    \E c \in Entries :
        /\ caller = "multi"
        /\ persona = None
        /\ c.layer = "deep"
        /\ c.total >= 16
        /\ c.total = budgets[Len(budgets)].budget.target_chars
        /\ Len(c.result) > c.total

\* C4 as stated: target_chars <= char_budget, char_budget >= 1 and
\* target_chars >= 1 for every budget computed
C4_BothAtLeastOne ==
    \A k \in 1..Len(budgets) :
        /\ budgets[k].budget.target_chars <= budgets[k].budget.char_budget
        /\ budgets[k].budget.char_budget >= 1
        /\ budgets[k].budget.target_chars >= 1

\* C4 amended: target_chars <= char_budget and char_budget >= 1 for every
\* budget computed; target_chars is floor(char_budget * buffer), which is at
\* least 1 exactly when char_budget * buffer >= 1 and 0 otherwise
C4_TargetWithinBudget ==
    \A k \in 1..Len(budgets) :
        LET b == budgets[k].budget
        IN  /\ b.target_chars <= b.char_budget
            /\ b.char_budget >= 1
            /\ b.target_chars >= 0
            /\ (b.target_chars >= 1) <=> (b.char_budget * budgets[k].buffer >= 100)

\* a budget whose target_chars is 0
C4_Witness ==
    /\ pc = "returned"
    /\ \E k \in 1..Len(budgets) :
           budgets[k].budget.target_chars = 0 /\ budgets[k].budget.char_budget >= 1

\* the budget computed from the built-in laptop profile
LaptopBudgets ==
    IF profiles = <<DEFAULT_PROFILES.laptop>>
    THEN {budgets[k].budget : k \in 1..Len(budgets)}
    ELSE {}

\* C5 as stated: the laptop profile gives columns = 80, lines = 61,
\* char_budget = 4880 and target_chars = 4392
C5_LaptopColumns80 ==
    \A b \in LaptopBudgets :
        b.columns = 80 /\ b.lines = 61 /\ b.char_budget = 4880 /\ b.target_chars = 4392

\* C5 amended: the laptop profile gives columns = 249, effective_columns = 80
\* (the ruler cap), lines = 61, char_budget = 4880 and target_chars = 4392
C5_LaptopEffectiveColumns80 ==
    \A b \in LaptopBudgets :
        /\ b.columns = 249
        /\ b.effective_columns = 80
        /\ b.lines = 61
        /\ b.char_budget = 4880
        /\ b.target_chars = 4392

\* the laptop budget has been computed
C5_Witness == pc = "returned" /\ LaptopBudgets # {}

UnknownAt(k) == k \in 1..Len(layers) /\ layers[k] \notin LayerNames

\* C6: a request with an unknown layer name never returns; it raises the
\* unknown-layer error that names the first unknown name and hands back no
\* result, whatever was produced for the layers before it
C6_UnknownLayerNoResult ==
    /\ (pc = "returned" => \A k \in 1..Len(layers) : ~UnknownAt(k))
    /\ (pc = "raised" =>
            /\ ret = None
            /\ UnknownAt(i)
            /\ \A k \in 1..(i - 1) : ~UnknownAt(k)
            /\ err # None
            /\ err[1][1] = "Unknown layer: "
            /\ err[1][2] = layers[i])

\* the error is raised after a known layer has been produced
C6_Witness == pc = "raised" /\ i > 1 /\ results # <<>> /\ log # <<>>

\* the persona error of multi_profile_summarize for the given name
IsPersonaError(name) ==
    /\ err # None
    /\ Len(err[1]) = 4
    /\ err[1][1] = "Unknown persona: "
    /\ err[1][2] = name
    /\ err[1][4] = <<"developer", "designer", "manager">>

\* what holds of a call of multi_profile_summarize that must fail on its
\* persona: no budget computed, no layer packed, nothing returned
FailsOnPersona(name) ==
    /\ pc \in {"multi", "raised"}
    /\ budgets = <<>>
    /\ log = <<>>
    /\ ret = None
    /\ (pc = "raised" => IsPersonaError(name))

\* C7 as stated: every persona name that is given and is not built-in makes
\* multi_profile_summarize fail with the unknown-persona error before any
\* budget is computed or any layer is packed
C7_UnknownPersonaFails ==
    (persona_name # None
     /\ persona_name[1] \notin {"developer", "designer", "manager"})
        => FailsOnPersona(persona_name[1])

\* C7 amended: every non-empty persona name that is not built-in makes
\* multi_profile_summarize fail with the unknown-persona error before any
\* budget is computed or any layer is packed (an empty name is taken as no
\* persona)
C7_UnknownNonEmptyPersonaFails ==
    (persona_name # None
     /\ persona_name[1] # ""
     /\ persona_name[1] \notin {"developer", "designer", "manager"})
        => FailsOnPersona(persona_name[1])

\* the error has been raised for a request with profiles
C7_Witness ==
    pc = "raised" /\ persona_name = Some("nonexistent") /\ profiles # <<>>

\* C8: whenever a persona with a vocabulary mapping is supplied, the text
\* handed to the packing strategy has had the substitution applied, in every
\* layer and under every placement rule
C8_VocabularyBeforePacking ==
    \A c \in Entries :
        (persona # None /\ persona[1].vocabulary_mappings # <<>>)
            => Contains(c.text, ApplyVocabulary(persona[1].vocabulary_mappings, text))

\* C9: with a persona, the text packed for headline is the input with the
\* vocabulary substitution only, and the headline result is what the packing
\* strategy returned: it holds neither the context preamble nor an
\* "Example: " line
C9_HeadlineVocabularyOnly ==
    \A c \in Entries :
        (persona # None /\ c.layer = "headline")
            => /\ c.text = ApplyVocabulary(persona[1].vocabulary_mappings, text)
               /\ c.result = c.out
               /\ ~Contains(c.result, ExamplePrefix)
               /\ (persona[1].context_prefix # <<>>
                       => ~Contains(c.result, persona[1].context_prefix))

\* a headline produced under a prepend persona with context and examples
C9_Witness ==
    \E c \in Entries :
        /\ persona # None
        /\ persona[1].examples_location = "prepend"
        /\ persona[1].example_sentences # <<>>
        /\ persona[1].context_prefix # <<>>
        /\ c.layer = "headline"
        /\ c.result # <<>>

ExampleLines(p) ==
    Join(NL, [k \in 1..Len(p.example_sentences) |->
                  <<"E", "x", "a", "m", "p", "l", "e", ":", " ">>
                  \o p.example_sentences[k]])

\* the material an append persona attaches: the context preamble if any, then
\* the example lines if any, a blank line between the two
AppendMaterial(p) ==
    IF p.context_prefix # <<>> /\ p.example_sentences # <<>>
    THEN p.context_prefix \o NLNL \o ExampleLines(p)
    ELSE IF p.context_prefix # <<>> THEN p.context_prefix
         ELSE ExampleLines(p)

IsAppendCase(c) ==
    /\ persona # None
    /\ persona[1].examples_location = "append"
    /\ c.layer \in {"one_screen", "deep"}

\* the body of an append case is packed from the unmodified text into
\* layer_ceiling - tag_overhead
PackedIndependently(c) ==
    /\ c.text = text
    /\ c.limit = (CASE c.layer = "one_screen" -> (c.total * 8) \div 10
                    [] c.layer = "deep"       -> c.total - 15)
    /\ c.out = naive_summarize(text, c.limit)

\* C10 as stated: under an append persona the body of one_screen and deep is
\* packed into layer_ceiling - tag_overhead whatever the persona holds, and
\* the result then ends with a blank-line separator followed by the context
\* preamble (if any) and the example lines (if any)
C10_AppendAlwaysSeparated ==
    \A c \in Entries :
        IsAppendCase(c)
            => /\ PackedIndependently(c)
               /\ c.result = TagOf(c) \o Strip(c.out) \o NLNL \o AppendMaterial(persona[1])

\* C10 amended: under an append persona the body of one_screen and deep is
\* packed into layer_ceiling - tag_overhead whatever the persona holds; when
\* the persona has a context preamble or an example the result is the
\* stripped body, a blank-line separator, the context preamble (if any) and
\* the example lines (if any); when it has neither, nothing is appended
C10_AppendSeparatedWhenAny ==
    \A c \in Entries :
        IsAppendCase(c)
            => /\ PackedIndependently(c)
               /\ c.result =
                    IF persona[1].context_prefix # <<>>
                       \/ persona[1].example_sentences # <<>>
                    THEN TagOf(c) \o Strip(c.out) \o NLNL \o AppendMaterial(persona[1])
                    ELSE TagOf(c) \o c.out

\* context and examples appended to a deep result whose budget is too small
\* to hold them
C10_Witness ==
    \E c \in Entries :
        /\ IsAppendCase(c)
        /\ c.layer = "deep"
        /\ persona[1].context_prefix # <<>>
        /\ persona[1].example_sentences # <<>>
        /\ c.total < Len(AppendMaterial(persona[1]))
        /\ Len(c.result) > c.total

\* the first 16 characters of a result, or all of it when it is shorter
Prefix16(c) == SubSeq(c.result, 1, Min(16, Len(c.result)))

\* C11: every deep result starts with "[hash:", the 8 hex digits of the
\* fingerprint of the original input text and "] ", whatever the budget, the
\* profile, the persona and its placement rule; all deep results of one text
\* carry the same tag
C11_TagOfOriginalText ==
    /\ \A c \in Entries :
           c.layer = "deep"
               => /\ Prefix16(c) = <<"[", "h", "a", "s", "h", ":">> \o content_hash(text)
                                   \o <<"]", " ">>
                  /\ Len(content_hash(text)) = 8
                  /\ \A n \in 1..8 : \E h \in DOMAIN HexDigits : HexDigits[h] = content_hash(text)[n]
    /\ \A c, e \in Entries :
           (c.layer = "deep" /\ e.layer = "deep") => Prefix16(c) = Prefix16(e)

\* a deep result packed from a text the persona's vocabulary has changed
C11_Witness ==
    \E c \in Entries :
        /\ c.layer = "deep"
        /\ persona # None
        /\ c.branch = "full"
        /\ c.text # text
        /\ ~Contains(c.text, text)
        /\ Len(c.result) > 16

\* target_chars of the budget of a profile taken on its own
OwnTotal(profile) ==
    compute_budget(profile.width_px, profile.height_px, profile.font_size_px, profile.editor_ruler_columns, profile.buffer).target_chars

\* the summary of one layer for a profile taken on its own
OwnCell(profile, layer_name) ==
    LET total  == OwnTotal(profile)
        branch == BranchOf(layer_name, total, persona)
        out    == summarizer(SummarizerText(layer_name, text, total, persona), SummarizerLimit(layer_name, total, persona))
    IN  LayerResult(layer_name, text, branch, persona, out)

MultiReturned == pc = "returned" /\ caller = "multi" /\ ret # None

\* C12: in the result of multi_profile_summarize the cell of every requested
\* profile and layer is the summary computed from the text, that profile's
\* own geometry, font, ruler and buffer, that layer and the persona, whatever
\* other profiles and layers the request holds
C12_CellOfOwnInputs ==
    MultiReturned =>
        \A k \in 1..Len(profiles), n \in 1..Len(layers) :
            /\ HasKey(ret[1], profiles[k].name)
            /\ HasKey(DictGet(ret[1], profiles[k].name), layers[n])
            /\ DictGet(DictGet(ret[1], profiles[k].name), layers[n])
                 = OwnCell(profiles[k], layers[n])

\* a sequence without the later occurrences of its elements
RECURSIVE FirstOccurrences(_)
FirstOccurrences(q) ==
    IF q = <<>> THEN <<>>
    ELSE LET front == FirstOccurrences(SubSeq(q, 1, Len(q) - 1))
         IN  IF \E n \in 1..(Len(q) - 1) : q[n] = q[Len(q)] THEN front
             ELSE Append(front, q[Len(q)])

\* C13: the result of multi_profile_summarize has exactly one entry per input
\* profile, in input order, the k-th entry under the k-th profile's name and
\* holding that profile's own summaries of the requested layers in request
\* order, also when two profiles carry the same name
C13_OneEntryPerProfile ==
    MultiReturned =>
        /\ Len(ret[1]) = Len(profiles)
        /\ \A k \in 1..Min(Len(ret[1]), Len(profiles)) :
               /\ ret[1][k].k = profiles[k].name
               /\ DictKeys(ret[1][k].v) = FirstOccurrences(layers)
               /\ \A n \in 1..Len(layers) :
                      HasKey(ret[1][k].v, layers[n])
                      /\ DictGet(ret[1][k].v, layers[n]) = OwnCell(profiles[k], layers[n])

\* the call of screenshot_aware_summarize has adjusted its profiles
ShotAdjusted == shot.active /\ pc \notin {"shot", "raised"} /\ Len(shot.adjusted_profiles) = Len(shot.profiles)

\* C15: for every profile buffer b and density d the adjusted buffer is, when
\* d > 0.7, b decreased by 0.1 but not below 0.7 and never greater than b;
\* when d < 0.3, b increased by 0.05 but not above 0.95 and never less than
\* b; when 0.3 <= d <= 0.7, b; and it is in (0,1] (hundredths)
C15_BufferAdjustment ==
    ShotAdjusted =>
        \A k \in 1..Len(shot.profiles) :
            LET b == shot.profiles[k].buffer
                a == shot.adjusted_profiles[k].buffer
                d == shot.text_density
            IN  /\ d > 70 => (a = Max(70, b - 10) /\ a <= b)
                /\ d < 30 => (a = Min(95, b + 5) /\ a >= b)
                /\ (d >= 30 /\ d <= 70) => a = b
                /\ a > 0 /\ a <= 100

\* the objects the caller of the outermost call passed as profiles
CallerObjects == IF shot.active THEN shot.profiles ELSE profiles

\* C16: no step of multi_profile_summarize or screenshot_aware_summarize
\* changes a Profile object of the caller, the built-in profile, layer and
\* persona tables, the shared default layer lists or the caller's layer list;
\* the adjusted buffers are in new objects
C16_ObjectsUnchanged ==
    [][/\ CallerObjects' = CallerObjects
       /\ shared' = shared
       /\ layers' = layers]_vars

\* a screenshot call has returned after the buffer of a profile was adjusted
C16_Witness ==
    /\ pc = "shot_returned"
    /\ \E k \in 1..Len(shot.profiles) :
           /\ shot.adjusted_profiles[k].buffer # shot.profiles[k].buffer
           /\ profiles[k] = shot.adjusted_profiles[k]
           /\ CopyOf(shot.profiles[k]) = shot.profiles[k]

ShotReturned == pc = "shot_returned" /\ shot.active /\ ret # None

\* C17: in the result of screenshot_aware_summarize every input profile, of
\* any name, has its entry, that entry holds the profile's summaries of the
\* requested layers and is not the metadata record, and the entries other
\* than the metadata record are those of the input profiles
C17_MetadataNotAProfileEntry ==
    ShotReturned =>
        /\ \A k \in 1..Len(shot.profiles) :
               /\ HasKey(ret[1], shot.profiles[k].name)
               /\ DictKeys(DictGet(ret[1], shot.profiles[k].name)) = FirstOccurrences(layers)
        /\ \A n \in 1..Len(ret[1]) :
               DictKeys(ret[1][n].v) = DictKeys(OcrMetadata(shot))
                   => \A k \in 1..Len(shot.profiles) : shot.profiles[k].name # ret[1][n].k

\* a name of --profiles is not a profile, a name of --layers is not a layer,
\* or --persona is a non-empty name that is not a persona
CliUnknownName ==
    \/ \E n \in 1..Len(CommaNames(cli.profiles)) :
           Strip(cli.profiles) # <<>> /\ ~ProfileFound(NameOf(CommaNames(cli.profiles)[n]))
    \/ \E n \in 1..Len(CommaNames(cli.layers)) :
           NameOf(CommaNames(cli.layers)[n]) \notin LayerNames
    \/ Truthy(cli.persona) /\ ~IsBuiltinPersona(cli.persona[1])

CliExited == cli.active /\ pc = "exited"

\* C14: a summarize-multi command given an unknown profile name, an unknown
\* layer name or an unknown persona name ends with an error message on
\* stderr, a non-zero status and nothing printed on stdout, for every
\* profile list including one that parses to no profile
C14_UnknownNameFails ==
    (CliExited /\ CliUnknownName) =>
        /\ cli.stderr # None
        /\ cli.status # None
        /\ cli.status # Some(0)
        /\ cli.stdout = None

\* C18: the result of the headline layer holds at most 2 sentences, for
\* every text and every total budget
C18_HeadlineAtMostTwoSentences ==
    \A c \in Entries :
        c.layer = "headline" => Len(SentencesOf(c.result)) <= 2

\* the sentences of a text, each with its runs of whitespace collapsed
CollapsedSentences(s) ==
    [k \in 1..Len(SentencesOf(s)) |-> Join(<<" ">>, Words(SentencesOf(s)[k]))]

\* C19: a non-empty text handed to the packer with a char_limit of at least
\* its length comes back with every one of its sentences, in order (the
\* whitespace inside a sentence apart)
C19_ShortTextKeepsSentences ==
    \A c \in Entries :
        (Len(c.text) > 0 /\ Len(c.text) <= c.limit)
            => CollapsedSentences(c.out) = CollapsedSentences(c.text)

\* the (profile, layer, text) triples of a result, in insertion order
RECURSIVE PairsOf(_)
PairsOf(summaries) ==
    IF summaries = <<>> THEN <<>>
    ELSE [n \in 1..Len(Head(summaries).v) |->
             [profile |-> Head(summaries).k, layer |-> Head(summaries).v[n].k,
              summary |-> Head(summaries).v[n].v]]
         \o PairsOf(Tail(summaries))

\* the number of lines of a string whose only line break is "\n", as
\* str.splitlines() counts them
LineCount(s) ==
    IF s = <<>> THEN 0
    ELSE Cardinality({n \in 1..(Len(s) - 1) : s[n] = "\n"}) + 1

\* the command has printed a result in the compact form
CompactPrinted == CliExited /\ cli.format = "compact" /\ cli.stdout # None /\ ret # None

\* C20: the compact rendering of a result has exactly one line per (profile,
\* layer) pair, in insertion order, the line of a pair being
\* "profile.layer: text", also for texts produced with a persona
C20_CompactOneLinePerPair ==
    CompactPrinted =>
        LET rendering == SubSeq(cli.stdout[1], 1, Len(cli.stdout[1]) - 1)
            pairs == PairsOf(ret[1])
            line(k) == Chars[pairs[k].profile] \o <<".">> \o Chars[pairs[k].layer]
                           \o <<":", " ">> \o pairs[k].summary
        IN  /\ LineCount(rendering) = Len(pairs)
            /\ rendering = Join(NL, [k \in 1..Len(pairs) |-> line(k)])

\* the non-blank names of a comma-separated list, surrounding blanks removed
ArgNames(s) ==
    LET parts == Split(s, ",")
    IN  SelectSeq([k \in 1..Len(parts) |-> Strip(parts[k])], LAMBDA x : x # <<>>)

\* the name is that of a built-in profile or of a profile file that loads
Resolves(name) ==
    \/ name \in DOMAIN DEFAULT_PROFILES
    \/ name \in DOMAIN ProfileFiles /\ ProfileFiles[name] # None

\* the profile a name that resolves stands for
Resolved(name) ==
    IF name \in DOMAIN DEFAULT_PROFILES THEN DEFAULT_PROFILES[name] ELSE ProfileFiles[name][1]

\* the command is past parse_profiles_from_cli
CliParsed == cli.active /\ pc # "cli"

\* C21: parse_profiles_from_cli gives one Profile per non-blank name, in the
\* order given and with surrounding blanks ignored, the empty list for an
\* empty or blank string, and, when some name resolves to neither a built-in
\* nor a stored profile, no profile at all but an error that names the first
\* such name
C21_ParseAllOrNothing ==
    CliParsed =>
        LET names == ArgNames(cli.profiles)
            bad   == {k \in 1..Len(names) : ~Resolves(NameOf(names[k]))}
        IN  IF bad = {}
            THEN /\ Len(profiles) = Len(names)
                 /\ \A k \in 1..Min(Len(profiles), Len(names)) :
                        profiles[k] = Resolved(NameOf(names[k]))
                 /\ (Strip(cli.profiles) = <<>> => profiles = <<>>)
            ELSE /\ pc = "exited"
                 /\ profiles = <<>>
                 /\ cli.stdout = None
                 /\ cli.stderr # None
                 /\ Len(cli.stderr[1]) >= 3
                 /\ cli.stderr[1][2] = "Failed to load profile '"
                 /\ cli.stderr[1][3] = NameOf(names[CHOOSE k \in bad : \A m \in bad : k <= m])

\* a list with blanks around its names gave two profiles, one of them stored
C21_Witness ==
    /\ CliParsed
    /\ Len(profiles) = 2
    /\ Len(cli.profiles) > Len(Chars[profiles[1].name]) + 1 + Len(Chars[profiles[2].name])
    /\ \E k \in 1..2 : profiles[k].name = "tiny"

\* a list with a name that does not resolve after one that does was refused
C21_WitnessRefused ==
    /\ CliParsed
    /\ Len(ArgNames(cli.profiles)) = 2
    /\ Resolves(NameOf(ArgNames(cli.profiles)[1]))
    /\ ~Resolves(NameOf(ArgNames(cli.profiles)[2]))
    /\ pc = "exited"

\* no profile was adjusted, no budget computed, no layer packed and nothing
\* returned, metadata included
NothingDone ==
    /\ shot.adjusted_profiles = <<>>
    /\ profiles = <<>>
    /\ budgets = <<>>
    /\ log = <<>>
    /\ mresults = <<>>
    /\ ret = None

ShotFailed(message) == shot.active /\ pc = "raised" /\ err = Some(<<message>>)

\* C22: in screenshot_aware_summarize a failure of the analyzer raises
\* "Failed to analyze screenshot" and a text that is empty or blanks only
\* raises "No text found in screenshot", in both cases before any profile is
\* adjusted, any budget computed or any layer packed, and with no result
C22_ExtractionErrorsFirst ==
    /\ (ShotFailed("Failed to analyze screenshot: ") \/ ShotFailed("No text found in screenshot"))
           => NothingDone
    /\ (shot.active /\ Strip(text) = <<>>)
           => /\ pc \in {"shot", "raised"}
              /\ NothingDone
              /\ pc = "raised"
                     => (ShotFailed("Failed to analyze screenshot: ")
                            \/ ShotFailed("No text found in screenshot"))

\* a screenshot whose text is blanks only was refused for a request with
\* profiles and layers
C22_Witness ==
    /\ ShotFailed("No text found in screenshot")
    /\ Strip(text) = <<>>
    /\ text # <<>>
    /\ Len(shot.profiles) > 0
    /\ Len(layers) > 0

\* the characters Persona.apply has put around the substituted text in the
\* text of an iteration of the full-persona branch
PersonaAdded(c) == Len(c.text) - Len(ApplyVocabulary(persona[1].vocabulary_mappings, text))

\* C23: in the full-persona branch at least 20 characters of the packer's
\* limit remain for the document's own (vocabulary-substituted) text once
\* the context preamble and the example lines in the packed text are counted
C23_ContentFloorRemains ==
    \A c \in Entries :
        (c.branch = "full" /\ persona # None)
            => c.limit - PersonaAdded(c) >= ContentFloor

\* the threshold of the full-persona branch for a layer of the running call
Threshold(layer_name) ==
    _calculate_persona_overhead(persona[1]) + hash_overhead(layer_name) + ContentFloor

\* the call has a persona whose placement rule is prepend or none
FramingPersona == persona # None /\ persona[1].examples_location \in {"prepend", "none"}

\* C24: with a persona of placement prepend or none, a non-headline layer
\* whose ceiling is at most persona_overhead + tag_overhead + 20 is packed
\* from the unmodified text into ceiling - tag_overhead and carries no persona
\* content, while a layer of the same call whose ceiling is above its
\* threshold is packed from the persona's transformation of the text into
\* ceiling - persona_overhead - tag_overhead
C24_FallbackPerLayer ==
    FramingPersona =>
        \A c \in Entries :
            c.layer # "headline" =>
                IF layer_budget(c.total, c.layer) <= Threshold(c.layer)
                THEN /\ c.text = text
                     /\ c.limit = layer_budget(c.total, c.layer) - hash_overhead(c.layer)
                     /\ c.result = (IF c.layer = "deep" THEN HashTag(text) ELSE <<>>)
                                       \o naive_summarize(text, c.limit)
                ELSE /\ c.text = apply(persona[1], text, TRUE, TRUE)
                     /\ c.limit = layer_budget(c.total, c.layer)
                                    - _calculate_persona_overhead(persona[1])
                                    - hash_overhead(c.layer)

\* one call packed deep from the unmodified text at a ceiling equal to the
\* threshold and one_screen with the persona
C24_Witness ==
    /\ FramingPersona
    /\ \E c, e \in Entries :
           /\ c.layer = "deep"
           /\ layer_budget(c.total, c.layer) = Threshold(c.layer)
           /\ c.text = text
           /\ e.layer = "one_screen"
           /\ e.branch = "full"
           /\ e.text # text

\* s is t cut at a word boundary and closed with the ellipsis, or t itself,
\* for t the text with its whitespace collapsed
IsTruncationOf(s, raw) ==
    LET collapsed == Join(<<" ">>, Words(raw))
    IN  \/ s = collapsed
        \/ /\ EndsWith(s, Ellipsis)
           /\ StartsWith(collapsed, SubSeq(s, 1, Len(s) - Len(Ellipsis)))

\* the number of leading sentences whose ". "-join with a final period is
\* within max_chars
FittingPrefix(sentences, max_chars) ==
    LET fit == {k \in 0..Len(sentences) :
                   k > 0 => Len(Join(<<".", " ">>, SubSeq(sentences, 1, k))) + 1 <= max_chars}
    IN  CHOOSE k \in fit : \A m \in fit : m <= k

\* C25: the packer returns the ". "-join plus final period of the longest
\* prefix of the trimmed non-empty sentences of its text that is within
\* max(10, char_limit), never a sentence after the first that overflows; a
\* truncation of the raw text when no sentence fits; and at most
\* max(10, char_limit) characters in every case
C25_GreedyPrefix ==
    \A c \in Entries :
        LET sentences == SentencesOf(c.text)
            max_chars == Max(10, c.limit)
            n         == FittingPrefix(sentences, max_chars)
        IN  /\ Len(c.out) <= max_chars
            /\ n > 0 => c.out = Join(<<".", " ">>, SubSeq(sentences, 1, n)) \o <<".">>
            /\ n = 0 => IsTruncationOf(c.out, c.text)

\* the packer stopped at a second sentence that overflowed although the
\* third would have fitted
C25_Witness ==
    \E c \in Entries :
        /\ Len(SentencesOf(c.text)) = 3
        /\ SentencesOf(c.out) = SubSeq(SentencesOf(c.text), 1, 1)
        /\ Len(Join(<<".", " ">>, <<SentencesOf(c.text)[1], SentencesOf(c.text)[3]>>)) + 1
               <= Max(10, c.limit)

\* the call of layered_summarize made directly has returned
LayeredReturned == pc = "returned" /\ caller = "direct" /\ ret # None

\* C26: for every total budget, layer and persona, layered_summarize returns
\* a result for every requested layer, and the char_limit it hands to the
\* packing strategy in any iteration is never below 10
C26_PackerCeilingAtLeastTen ==
    /\ LayeredReturned => \A n \in 1..Len(layers) : HasKey(ret[1], layers[n])
    /\ \A c \in Entries : c.limit >= MinChars

\* the call has raised the unknown-layer error
UnknownLayerRaised ==
    /\ pc = "raised"
    /\ err # None
    /\ Len(err[1]) = 2
    /\ err[1][1] = "Unknown layer: "

\* C27: when the requested layers hold an unknown name at any position,
\* layered_summarize and multi_profile_summarize raise the unknown-layer
\* error without the packing strategy having been called for any layer of
\* any profile
C27_ValidationBeforePacking ==
    UnknownLayerRaised => log = <<>>

\* C28: in the full-persona branch the complete result of a layer, with the
\* persona's context and examples, the packed text and the tag of a layer
\* that has one, is no longer than the layer's ceiling, for every persona
\* (one with neither context nor examples included) and every text
C28_FullPersonaWithinCeiling ==
    \A c \in Entries :
        c.branch = "full" => Len(c.result) <= layer_budget(c.total, c.layer)

\* the characters Persona.apply puts around the substituted text
AppliedAround(p, s) ==
    Len(apply(p, s, TRUE, TRUE)) - Len(ApplyVocabulary(p.vocabulary_mappings, s))

\* C29: for a persona of placement prepend or none the overhead returned by
\* _calculate_persona_overhead equals the number of characters Persona.apply
\* adds around the substituted text, and is never smaller than it
C29_OverheadIsWhatApplyAdds ==
    FramingPersona =>
        /\ _calculate_persona_overhead(persona[1]) >= AppliedAround(persona[1], text)
        /\ _calculate_persona_overhead(persona[1]) = AppliedAround(persona[1], text)

IsPrefixOf(s, t) == Len(s) <= Len(t) /\ SubSeq(t, 1, Len(s)) = s

PackerCalls == {c \in Entries : c.branch = "packer"}

\* C30: the default packing strategy is monotone in its ceiling: for every
\* text and all limits a <= b the sentences kept at a are a prefix of the
\* sentences kept at b and the result at a is no longer than the result at
\* b; and without a persona the headline of a call is never longer than the
\* one_screen of the same call
C30_PackerMonotone ==
    /\ \A c, d \in PackerCalls :
          c.limit <= d.limit =>
              /\ IsPrefixOf(KeptSentences(c.text, c.limit), KeptSentences(d.text, d.limit))
              /\ Len(c.out) <= Len(d.out)
    /\ \A c, d \in Entries :
          (persona = None /\ c.layer = "headline" /\ d.layer = "one_screen")
              => Len(c.result) <= Len(d.result)

\* two calls of one text where the larger limit keeps one sentence more
C30_Witness ==
    \E c, d \in PackerCalls :
        /\ c.limit < d.limit
        /\ KeptSentences(c.text, c.limit) # <<>>
        /\ Len(KeptSentences(c.text, c.limit)) < Len(KeptSentences(d.text, d.limit))
        /\ Len(c.out) < Len(d.out)

\* a call in which no sentence fits, followed by one in which the first does
C30_WitnessFallback ==
    \E c, d \in PackerCalls :
        /\ c.limit < d.limit
        /\ KeptSentences(c.text, c.limit) = <<>>
        /\ KeptSentences(d.text, d.limit) # <<>>

\* a call without a persona that packed headline and one_screen
C30_WitnessLayers ==
    /\ persona = None
    /\ \E c, d \in Entries : c.layer = "headline" /\ d.layer = "one_screen"
=============================================================================
